---- MODULE Spec2Model ----
(***************************************************************************)
(* Search-promotion admin views                                            *)
(* (wagtail/contrib/search_promotions/views/settings.py).                  *)
(*                                                                         *)
(* The relational store is the pair (promotions, log) plus the Query       *)
(* table; every view is one action that takes a request, runs the handler  *)
(* body against the store and leaves the response in `last`.  `before`     *)
(* keeps the store as it was when the request entered the handler.         *)
(***************************************************************************)
EXTENDS Integers, Sequences, FiniteSets, TLC

VARIABLES queries, promotions, nextId, log, last, before

vars == <<queries, promotions, nextId, log, last, before>>

(***************************************************************************)
(* Bounds of the model.                                                    *)
(***************************************************************************)
MaxPickId == 2
MaxForms == 2
MaxLog == 4
MaxMatches == 21

(***************************************************************************)
(* Program constants.                                                      *)
(***************************************************************************)
per_page == 10

(***************************************************************************)
(* Query strings.  A string is a sequence of characters; a Query row is    *)
(* identified by its normalised string.                                    *)
(***************************************************************************)
QueryStrings == { <<"A", " ">>, <<"b">>, <<" ">> }

Lower(c) == CASE c = "A" -> "a" [] c = "B" -> "b" [] OTHER -> c

RECURSIVE CollapseSpaces(_)
CollapseSpaces(s) ==
    IF Len(s) <= 1 THEN s
    ELSE IF s[1] = " " /\ s[2] = " " THEN CollapseSpaces(Tail(s))
    ELSE <<s[1]>> \o CollapseSpaces(Tail(s))

Strip(s) ==
    LET a == IF Len(s) > 0 /\ s[1] = " " THEN Tail(s) ELSE s
    IN  IF Len(a) > 0 /\ a[Len(a)] = " " THEN SubSeq(a, 1, Len(a) - 1) ELSE a

\* lower-case, then collapse runs of spaces and strip both ends
normalise_query_string(s) ==
    Strip(CollapseSpaces([i \in 1..Len(s) |-> Lower(s[i])]))

AllQueries == { normalise_query_string(s) : s \in QueryStrings } \ { <<>> }

\* QueryForm: one required, whitespace-stripped text field
QueryFormValid(s) == Strip(CollapseSpaces(s)) # <<>>

(***************************************************************************)
(* Users and permissions.                                                  *)
(***************************************************************************)
Perms == {"add", "change", "delete"}
\* the users that send requests: no permission, or one of the three
Users == { {} } \cup { {perm} : perm \in Perms }

permission_required(perm, user) == perm \in user

(***************************************************************************)
(* The store seen by one transaction.                                      *)
(***************************************************************************)
Db(p, l, n) == [promotions |-> p, log |-> l, nextId |-> n]

Ids(ps) == { r.id : r \in ps }
PicksOf(ps, q) == { r \in ps : r.query = q }

\* log(instance, action): one audit entry; `present` records whether the
\* row of the instance is in the store at the moment it is logged
LogEntry(db, id, action) ==
    [pick |-> id, action |-> action, present |-> id \in Ids(db.promotions)]

LogOne(db, id, action) ==
    [db EXCEPT !.log = Append(@, LogEntry(db, id, action))]

RECURSIVE LogAll(_, _, _)
LogAll(db, ids, action) ==
    IF ids = <<>> THEN db
    ELSE LogAll(LogOne(db, Head(ids), action), Tail(ids), action)

\* variant: no transaction, every write is committed as it is made
atomic_autocommit(snapshot, working, raised) == working

\* transaction.atomic(): the working store is kept when the block ends
\* normally and the store at entry is restored when it raises
atomic(snapshot, working, raised) == IF raised THEN snapshot ELSE working

(***************************************************************************)
(* The picks formset (SearchPromotionsFormSet: an inline model formset     *)
(* with can_order, can_delete and extra = 0).  A submitted form is         *)
(*   pick   : the id of the row it edits, 0 for an extra (new) form        *)
(*   data   : "same" (model fields as stored), "new" (valid new values),   *)
(*            "bad" (values that fail field validation), "blank" (an       *)
(*            extra form nothing was typed into)                           *)
(*   DELETE : the deletion checkbox                                        *)
(*   ORDER  : the ordering field, 0 when left empty                        *)
(* Initial forms come first; initial form i is pre-filled with ORDER = i.  *)
(***************************************************************************)
InitialForms(ids) ==
    [pick : ids, data : {"same", "new", "bad"}, DELETE : BOOLEAN, ORDER : 1..MaxForms]

ExtraForms ==
    [pick : {0}, data : {"new", "bad"}, DELETE : BOOLEAN, ORDER : 1..MaxForms]
      \cup { [pick |-> 0, data |-> "blank", DELETE |-> FALSE, ORDER |-> 0] }

\* the request.POST payloads a formset bound to the rows `ids` can receive
Posts(ids) ==
    UNION { UNION { { init \o extra :
                        init \in { f \in [1..k -> InitialForms(ids)] :
                                     \A i, j \in 1..k : f[i].pick = f[j].pick => i = j },
                        extra \in [1..(n - k) -> ExtraForms] }
                    : k \in 0..n }
            : n \in 0..MaxForms }

is_initial(F, i) == F[i].pick # 0

\* form.changed_data is not empty
changed_fields(F, i) ==
    \/ F[i].data \in {"new", "bad"}
    \/ F[i].DELETE
    \/ is_initial(F, i) /\ F[i].ORDER # i

form_errors(F, i) == F[i].data = "bad"

\* SearchPromotionsFormSet.clean(): at least minimum_forms forms that are
\* not deleted, and at least minimum_forms that are not empty
minimum_forms == 1

non_form_errors(F) ==
    LET non_deleted_forms == Cardinality({ i \in 1..Len(F) : ~F[i].DELETE })
        non_empty_forms ==
            Cardinality({ i \in 1..Len(F) : ~(F[i].pick = 0 /\ ~changed_fields(F, i)) })
    IN  non_deleted_forms < minimum_forms \/ non_empty_forms < minimum_forms

is_valid(F) ==
    /\ \A i \in 1..Len(F) : ~F[i].DELETE => ~form_errors(F, i)
    /\ ~non_form_errors(F)

\* indexes of formset.ordered_forms: unchanged extra forms and forms marked
\* for deletion are left out
OrderedIndexes(F) ==
    { i \in 1..Len(F) : ~(~is_initial(F, i) /\ ~changed_fields(F, i)) /\ ~F[i].DELETE }

\* position of form i in ordered_forms (sorted by ORDER, stable), which is
\* the value `enumerate` gives it
sort_order(F, i) ==
    Cardinality({ j \in OrderedIndexes(F) :
                    \/ F[j].ORDER < F[i].ORDER
                    \/ F[j].ORDER = F[i].ORDER /\ j < i })

\* form.has_changed() once the ordered forms were given `lambda: True`
has_changed(F, i) == i \in OrderedIndexes(F) \/ changed_fields(F, i)

\* indexes of formset.deleted_forms
DeletedIndexes(F) ==
    { i \in 1..Len(F) : ~(~is_initial(F, i) /\ ~changed_fields(F, i)) /\ F[i].DELETE }

RECURSIVE PicksInOrder(_, _, _)
PicksInOrder(F, I, i) ==
    IF i > Len(F) THEN <<>>
    ELSE (IF i \in I THEN <<F[i].pick>> ELSE <<>>) \o PicksInOrder(F, I, i + 1)

\* deleted forms whose instance has a primary key
items_for_deletion(F) ==
    PicksInOrder(F, { i \in DeletedIndexes(F) : F[i].pick # 0 }, 1)

\* searchpicks_formset.save(): save_existing_objects then save_new_objects.
\* st = [db, new_objects, changed_objects]
RECURSIVE FormsetSave(_, _, _, _)
FormsetSave(st, F, query, i) ==
    IF i > Len(F) THEN st
    ELSE LET f == F[i]
             rows == st.db.promotions
             next ==
               IF is_initial(F, i) THEN
                 IF f.pick \notin Ids(rows) THEN st
                 ELSE IF f.DELETE THEN
                   [st EXCEPT !.db.promotions = { r \in rows : r.id # f.pick }]
                 ELSE IF has_changed(F, i) THEN
                   [st EXCEPT
                      !.changed_objects =
                          Append(@, [pick |-> f.pick, changed |-> changed_fields(F, i)]),
                      !.db.promotions =
                          { r \in rows : r.id # f.pick } \cup
                          { [id |-> f.pick, query |-> query,
                             sort_order |-> sort_order(F, i)] }]
                 ELSE st
               ELSE
                 IF ~has_changed(F, i) \/ f.DELETE THEN st
                 ELSE [st EXCEPT
                         !.new_objects = Append(@, st.db.nextId),
                         !.db.nextId = @ + 1,
                         !.db.promotions =
                             rows \cup { [id |-> st.db.nextId, query |-> query,
                                          sort_order |-> sort_order(F, i)] }]
         IN  FormsetSave(next, F, query, i + 1)

\* searchpicks_formset.get_queryset().update(query=new_query)
UpdateQuery(db, query, new_query) ==
    [db EXCEPT !.promotions =
        { IF r.query = query THEN [r EXCEPT !.query = new_query] ELSE r : r \in @ }]

RECURSIVE EditedPicks(_, _)
EditedPicks(changed_objects, all) ==
    IF changed_objects = <<>> THEN <<>>
    ELSE (IF all \/ Head(changed_objects).changed
            THEN <<Head(changed_objects).pick>> ELSE <<>>)
         \o EditedPicks(Tail(changed_objects), all)

\* where an exception can leave the transaction of save_searchpicks: at a
\* step that has something to do
NewIndexes(F) == { i \in OrderedIndexes(F) : ~is_initial(F, i) }

Faults(query, new_query, F) ==
    {"none", "save"}
      \cup (IF items_for_deletion(F) # <<>> THEN {"log_delete"} ELSE {})
      \cup (IF NewIndexes(F) # {} THEN {"log_create"} ELSE {})
      \cup (IF query # new_query THEN {"update"} ELSE {})
      \cup (IF \E i \in OrderedIndexes(F) :
                  is_initial(F, i) /\ (query # new_query \/ changed_fields(F, i))
             THEN {"log_edit"} ELSE {})

\* the branch of save_searchpicks taken by a valid formset
save_valid(query, new_query, F, db0, fault) ==
      LET d1 == LogAll(db0, items_for_deletion(F), "wagtail.delete")
          s2 == FormsetSave([db |-> d1, new_objects |-> <<>>, changed_objects |-> <<>>],
                            F, query, 1)
          d3 == LogAll(s2.db, s2.new_objects, "wagtail.create")
          d4 == IF query # new_query THEN UpdateQuery(d3, query, new_query) ELSE d3
          d5 == LogAll(d4, EditedPicks(s2.changed_objects, query # new_query),
                       "wagtail.edit")
          working == CASE fault = "none"       -> d5
                       [] fault = "log_delete" -> db0
                       [] fault = "save"       -> d1
                       [] fault = "log_create" -> s2.db
                       [] fault = "update"     -> d3
                       [] fault = "log_edit"   -> d4
      IN  [ret |-> IF fault = "none" THEN "True" ELSE "raise",
           db |-> atomic(db0, working, fault # "none"),
           new_objects |-> IF fault = "none" THEN s2.new_objects ELSE <<>>]

\* variant: the formset is saved without asking is_valid()
save_searchpicks_unvalidated(query, new_query, F, db0, fault) ==
    save_valid(query, new_query, F, db0, fault)

save_searchpicks(query, new_query, F, db0, fault) ==
    IF is_valid(F)
    THEN save_valid(query, new_query, F, db0, fault)
    ELSE [ret |-> "False", db |-> db0, new_objects |-> <<>>]

(***************************************************************************)
(* The views.  Each takes the Query table Q, the store db and the request  *)
(* and gives the Query table and store it leaves and its response.         *)
(***************************************************************************)
Methods == {"GET", "POST"}

Out(Q, db, response, message, new_query, new_objects) ==
    [queries |-> Q, db |-> db, response |-> response, message |-> message,
     new_query |-> new_query, new_objects |-> new_objects]

\* Query.get(query_string): get_or_create on the normalised string
Query_get(s) == normalise_query_string(s)

\* variant: the pk__in filter is left out
get_base_queryset_unfiltered(Q, rows) ==
    { [query |-> q, editors_picks |-> PicksOf(rows, q)] : q \in Q }

\* IndexView.get_base_queryset: the Query rows whose id is among the
\* query_id values of SearchPromotion, each with its prefetched picks
get_base_queryset(Q, rows) ==
    LET has_promotions == { r.query : r \in rows }
    IN  { [query |-> q, editors_picks |-> PicksOf(rows, q)] :
            q \in { x \in Q : x \in has_promotions } }

\* variant: the formset is built without instance=query, so the picks it
\* saves belong to no Query
add_noInstance(Q, db, user, method, s, F, fault) ==
    IF ~permission_required("add", user)
    THEN Out(Q, db, "denied", "none", <<>>, <<>>)
    ELSE IF method # "POST" \/ ~QueryFormValid(s)
    THEN Out(Q, db, "render", "none", <<>>, <<>>)
    ELSE
      LET query == Query_get(s)
          r == save_searchpicks(<<>>, <<>>, F, db, fault)
      IN  CASE r.ret = "True" ->
                 Out(Q \cup {query}, LogAll(r.db, r.new_objects, "wagtail.create"),
                     "redirect", "success", query, r.new_objects)
            [] r.ret = "False" ->
                 Out(Q \cup {query}, r.db, "render",
                     IF non_form_errors(F) THEN "non_form_errors" ELSE "form_errors",
                     query, <<>>)
            [] OTHER -> Out(Q \cup {query}, r.db, "error", "none", query, <<>>)

add(Q, db, user, method, s, F, fault) ==
    IF ~permission_required("add", user)
    THEN Out(Q, db, "denied", "none", <<>>, <<>>)
    ELSE IF method # "POST" \/ ~QueryFormValid(s)
    THEN Out(Q, db, "render", "none", <<>>, <<>>)
    ELSE
      LET query == Query_get(s)
          r == save_searchpicks(query, query, F, db, fault)
      IN  CASE r.ret = "True" ->
                 Out(Q \cup {query}, LogAll(r.db, r.new_objects, "wagtail.create"),
                     "redirect", "success", query, r.new_objects)
            [] r.ret = "False" ->
                 Out(Q \cup {query}, r.db, "render",
                     IF non_form_errors(F) THEN "non_form_errors" ELSE "form_errors",
                     query, <<>>)
            [] OTHER -> Out(Q \cup {query}, r.db, "error", "none", query, <<>>)

edit(Q, db, user, method, query_id, s, F, fault) ==
    IF ~permission_required("change", user)
    THEN Out(Q, db, "denied", "none", <<>>, <<>>)
    ELSE IF query_id \notin Q
    THEN Out(Q, db, "not_found", "none", <<>>, <<>>)
    ELSE IF method # "POST" \/ ~QueryFormValid(s)
    THEN Out(Q, db, "render", "none", <<>>, <<>>)
    ELSE
      LET new_query == Query_get(s)
          r == save_searchpicks(query_id, new_query, F, db, fault)
      IN  CASE r.ret = "True" ->
                 Out(Q \cup {new_query}, r.db, "redirect", "success",
                     new_query, r.new_objects)
            [] r.ret = "False" ->
                 Out(Q \cup {new_query}, r.db, "render",
                     IF non_form_errors(F) THEN "non_form_errors" ELSE "form_errors",
                     new_query, <<>>)
            [] OTHER -> Out(Q \cup {new_query}, r.db, "error", "none", new_query, <<>>)

\* the picks of a query in the order the queryset yields them (sort_order,
\* ties by id)
RECURSIVE InOrder(_)
InOrder(rows) ==
    IF rows = {} THEN <<>>
    ELSE LET first == CHOOSE r \in rows :
                        \A o \in rows : \/ r.sort_order < o.sort_order
                                        \/ r.sort_order = o.sort_order /\ r.id <= o.id
         IN  <<first.id>> \o InOrder(rows \ {first})

\* where an exception can leave the transaction of delete
DeleteFaults(rows, query_id) ==
    {"none", "delete"}
      \cup (IF PicksOf(rows, query_id) # {} THEN {"log_delete"} ELSE {})

\* variant: the picks are removed first and logged afterwards
delete_logAfterRemoval(Q, db, user, method, query_id, fault) ==
    IF ~permission_required("delete", user)
    THEN Out(Q, db, "denied", "none", <<>>, <<>>)
    ELSE IF query_id \notin Q
    THEN Out(Q, db, "not_found", "none", <<>>, <<>>)
    ELSE IF method # "POST"
    THEN Out(Q, db, "render", "none", <<>>, <<>>)
    ELSE
      LET editors_picks == PicksOf(db.promotions, query_id)
          d1 == [db EXCEPT !.promotions = { r \in @ : r.query # query_id }]
          d2 == LogAll(d1, InOrder(editors_picks), "wagtail.delete")
          working == CASE fault = "none"       -> d2
                       [] fault = "log_delete" -> d1
                       [] fault = "delete"     -> db
          after == atomic(db, working, fault # "none")
      IN  IF fault = "none"
          THEN Out(Q, after, "redirect", "success", <<>>, <<>>)
          ELSE Out(Q, after, "error", "none", <<>>, <<>>)

delete(Q, db, user, method, query_id, fault) ==
    IF ~permission_required("delete", user)
    THEN Out(Q, db, "denied", "none", <<>>, <<>>)
    ELSE IF query_id \notin Q
    THEN Out(Q, db, "not_found", "none", <<>>, <<>>)
    ELSE IF method # "POST"
    THEN Out(Q, db, "render", "none", <<>>, <<>>)
    ELSE
      LET editors_picks == PicksOf(db.promotions, query_id)
          d1 == LogAll(db, InOrder(editors_picks), "wagtail.delete")
          d2 == [d1 EXCEPT !.promotions = { r \in @ : r.query # query_id }]
          working == CASE fault = "none"       -> d2
                       [] fault = "log_delete" -> db
                       [] fault = "delete"     -> d1
          after == atomic(db, working, fault # "none")
      IN  IF fault = "none"
          THEN Out(Q, after, "redirect", "success", <<>>, <<>>)
          ELSE Out(Q, after, "error", "none", <<>>, <<>>)

\* generic.IndexView with permission_policy = ModelPermissionPolicy(
\* SearchPromotion): any of the model's permissions opens the listing
index(Q, db, user) ==
    IF user = {} THEN [response |-> "denied", object_list |-> {}]
    ELSE [response |-> "render", object_list |-> get_base_queryset(Q, db.promotions)]

(***************************************************************************)
(* State machine of the add, edit, delete and index endpoints.             *)
(***************************************************************************)
NoRequest ==
    [op |-> "none", user |-> {}, method |-> "GET", query_id |-> <<>>,
     query_string |-> <<>>, forms |-> <<>>, fault |-> "none",
     response |-> "none", message |-> "none", new_query |-> <<>>,
     new_objects |-> <<>>, get_results |-> FALSE, has_q |-> FALSE,
     total |-> 0, matching |-> 0, has_p |-> FALSE, p |-> <<>>, object_list |-> {}]

Init ==
    /\ queries = {}
    /\ promotions = {}
    /\ nextId = 1
    /\ log = <<>>
    /\ last = NoRequest
    /\ before = [promotions |-> {}, log |-> <<>>]

Store == Db(promotions, log, nextId)

\* the store and the response a handler leaves become the next state
Respond(req, out) ==
    /\ Len(out.db.log) <= MaxLog
    /\ out.db.nextId <= MaxPickId + 1
    /\ queries' = out.queries
    /\ promotions' = out.db.promotions
    /\ log' = out.db.log
    /\ nextId' = out.db.nextId
    /\ before' = [promotions |-> promotions, log |-> log]
    /\ last' = [req EXCEPT !.response = out.response, !.message = out.message,
                           !.new_query = out.new_query,
                           !.new_objects = out.new_objects]

AddRequest(user, method, s, F, fault) ==
    Respond([NoRequest EXCEPT !.op = "add", !.user = user, !.method = method,
                              !.query_string = s, !.forms = F, !.fault = fault],
            add(queries, Store, user, method, s, F, fault))

Add ==
    /\ last.op = "none"
    /\ \E user \in Users :
      \/ /\ ~permission_required("add", user)
         /\ \E method \in Methods : AddRequest(user, method, <<>>, <<>>, "none")
      \/ /\ permission_required("add", user)
         /\ \/ AddRequest(user, "GET", <<>>, <<>>, "none")
            \/ \E s \in QueryStrings :
                 IF ~QueryFormValid(s)
                 THEN AddRequest(user, "POST", s, <<>>, "none")
                 ELSE \E F \in Posts(Ids(PicksOf(promotions, Query_get(s)))) :
                        \E fault \in (IF is_valid(F)
                                         THEN Faults(Query_get(s), Query_get(s), F)
                                         ELSE {"none"}) :
                          AddRequest(user, "POST", s, F, fault)

EditRequest(user, method, query_id, s, F, fault) ==
    Respond([NoRequest EXCEPT !.op = "edit", !.user = user, !.method = method,
                              !.query_id = query_id, !.query_string = s,
                              !.forms = F, !.fault = fault],
            edit(queries, Store, user, method, query_id, s, F, fault))

Edit ==
    /\ last.op = "none"
    /\ \E user \in Users, query_id \in AllQueries :
      \/ /\ ~permission_required("change", user) \/ query_id \notin queries
         /\ \E method \in Methods :
              EditRequest(user, method, query_id, <<>>, <<>>, "none")
      \/ /\ permission_required("change", user) /\ query_id \in queries
         /\ \/ EditRequest(user, "GET", query_id, <<>>, <<>>, "none")
            \/ \E s \in QueryStrings :
                 IF ~QueryFormValid(s)
                 THEN EditRequest(user, "POST", query_id, s, <<>>, "none")
                 ELSE \E F \in Posts(Ids(PicksOf(promotions, query_id))) :
                        \E fault \in (IF is_valid(F)
                                         THEN Faults(query_id, Query_get(s), F)
                                         ELSE {"none"}) :
                          EditRequest(user, "POST", query_id, s, F, fault)

DeleteRequest(user, method, query_id, fault) ==
    Respond([NoRequest EXCEPT !.op = "delete", !.user = user, !.method = method,
                              !.query_id = query_id, !.fault = fault],
            delete(queries, Store, user, method, query_id, fault))

Delete ==
    /\ last.op = "none"
    /\ \E user \in Users, query_id \in AllQueries :
      \/ /\ ~permission_required("delete", user) \/ query_id \notin queries
         /\ \E method \in Methods : DeleteRequest(user, method, query_id, "none")
      \/ /\ permission_required("delete", user) /\ query_id \in queries
         /\ \/ DeleteRequest(user, "GET", query_id, "none")
            \/ \E fault \in DeleteFaults(promotions, query_id) :
                 DeleteRequest(user, "POST", query_id, fault)

Index ==
    /\ last.op = "none"
    /\ \E user \in Users :
      LET r == index(queries, Store, user)
      IN  /\ last' = [NoRequest EXCEPT !.op = "index", !.user = user,
                                       !.response = r.response,
                                       !.object_list = r.object_list]
          /\ before' = [promotions |-> promotions, log |-> log]
          /\ UNCHANGED <<queries, promotions, nextId, log>>

\* the response has been sent; the next request can enter
Deliver ==
    /\ last.op # "none"
    /\ last' = NoRequest
    /\ before' = [promotions |-> {}, log |-> <<>>]
    /\ UNCHANGED <<queries, promotions, nextId, log>>

Next == Add \/ Edit \/ Delete \/ Index \/ Deliver

Spec == Init /\ [][Next]_vars

(***************************************************************************)
(* The chooser and chooserresults endpoints.  `total` is the number of     *)
(* Query rows get_most_popular yields and `matching` the number of them    *)
(* whose string contains the normalised search string.                     *)
(***************************************************************************)
Digits == {"0", "1", "2", "3", "4", "5", "6", "7", "8", "9"}

DigitValue(c) ==
    CASE c = "0" -> 0 [] c = "1" -> 1 [] c = "2" -> 2 [] c = "3" -> 3 [] c = "4" -> 4
      [] c = "5" -> 5 [] c = "6" -> 6 [] c = "7" -> 7 [] c = "8" -> 8 [] c = "9" -> 9

Unsigned(s) == IF Len(s) > 0 /\ s[1] \in {"-", "+"} THEN Tail(s) ELSE s

\* int(s) does not raise ValueError
IsInteger(s) == Len(Unsigned(s)) > 0 /\ \A i \in 1..Len(Unsigned(s)) : Unsigned(s)[i] \in Digits

RECURSIVE Decimal(_)
Decimal(s) == IF s = <<>> THEN 0 ELSE 10 * Decimal(SubSeq(s, 1, Len(s) - 1)) + DigitValue(s[Len(s)])

int(s) == IF Len(s) > 0 /\ s[1] = "-" THEN 0 - Decimal(Unsigned(s)) ELSE Decimal(Unsigned(s))

\* the values of the "p" parameter of request.GET
PValues ==
    { <<"1">>, <<"2">>, <<"3">>, <<"4">>, <<"0">>, <<"-", "1">>, <<"0", "2">>,
      <<"x">>, <<"1", ".", "5">>, <<>> }

\* Paginator(queries, per_page=10).num_pages, with the empty first page allowed
num_pages(count) ==
    LET hits == IF count > 1 THEN count ELSE 1
    IN  (hits + per_page - 1) \div per_page

\* Paginator.page(number): the positions of the page in the result list, or
\* InvalidPage
paginator_page(count, has_p, p) ==
    IF has_p /\ ~IsInteger(p) THEN [invalid |-> TRUE, object_list |-> {}]
    ELSE LET number == IF has_p THEN int(p) ELSE 1
             bottom == (number - 1) * per_page
             top == IF bottom + per_page >= count THEN count ELSE bottom + per_page
         IN  IF number < 1 \/ number > num_pages(count)
             THEN [invalid |-> TRUE, object_list |-> {}]
             ELSE [invalid |-> FALSE, object_list |-> (bottom + 1)..top]

\* variant: an invalid page number falls back to the first page instead of
\* raising Http404
chooser_firstPage(has_q, total, matching, has_p, p, get_results) ==
    LET count == IF has_q THEN matching ELSE total
        page == paginator_page(count, has_p, p)
        first == paginator_page(count, FALSE, <<>>)
    IN  [response |-> IF get_results THEN "results" ELSE "modal",
         object_list |-> IF page.invalid THEN first.object_list ELSE page.object_list]

chooser(has_q, total, matching, has_p, p, get_results) ==
    LET count == IF has_q THEN matching ELSE total
        page == paginator_page(count, has_p, p)
    IN  IF page.invalid
        THEN [response |-> "not_found", object_list |-> {}]
        ELSE [response |-> IF get_results THEN "results" ELSE "modal",
              object_list |-> page.object_list]

chooserresults(has_q, total, matching, has_p, p) ==
    chooser(has_q, total, matching, has_p, p, TRUE)

ChooserRequest(op, user, has_q, total, matching, has_p, p, r) ==
    /\ last' = [NoRequest EXCEPT !.op = op, !.user = user, !.has_q = has_q,
                                 !.total = total, !.matching = matching,
                                 !.has_p = has_p, !.p = p,
                                 !.get_results = (op = "chooserresults"),
                                 !.response = r.response,
                                 !.object_list = r.object_list]
    /\ before' = [promotions |-> promotions, log |-> log]
    /\ UNCHANGED <<queries, promotions, nextId, log>>

ChooserEndpoint(op) ==
    /\ last.op = "none"
    /\ \E user \in Users, has_q \in BOOLEAN, total \in 0..MaxMatches :
         \E matching \in (IF has_q THEN 0..total ELSE {0}) :
           \E has_p \in BOOLEAN :
             \E p \in (IF has_p THEN PValues ELSE {<<>>}) :
               ChooserRequest(op, user, has_q, total, matching, has_p, p,
                              IF op = "chooserresults"
                                THEN chooserresults(has_q, total, matching, has_p, p)
                                ELSE chooser(has_q, total, matching, has_p, p, FALSE))

Chooser == ChooserEndpoint("chooser")

ChooserResults == ChooserEndpoint("chooserresults")

ChooserNext == Chooser \/ ChooserResults \/ Deliver

ChooserSpec == Init /\ [][ChooserNext]_vars

(***************************************************************************)
(* Properties.  In a state where last.op # "none" a request has just been  *)
(* handled: `before` is the store it found, the variables are the store it *)
(* left and `last` is the request with its response.                       *)
(***************************************************************************)
\* the audit entries the last request added
Appended == SubSeq(log, Len(before.log) + 1, Len(log))

CountEntries(entries, id, action) ==
    Cardinality({ i \in 1..Len(entries) :
                    entries[i].pick = id /\ entries[i].action = action })

MarkedForDeletion(F) == { F[i].pick : i \in DeletedIndexes(F) } \ {0}

Listing == get_base_queryset(queries, promotions)

EditMoved ==
    /\ last.op = "edit"
    /\ last.response = "redirect"
    /\ last.new_query # last.query_id

DeleteDone ==
    /\ last.op = "delete"
    /\ last.method = "POST"
    /\ last.response = "redirect"

\* C1: every Query the index lists has at least one SearchPromotion whose
\* query it is; the old Query of an edit that moved its picks away and the
\* Query of a completed delete are not listed.
C1_IndexListsOnlyPromoted ==
    /\ \A row \in Listing :
         /\ \E r \in promotions : r.query = row.query
         /\ Cardinality(row.editors_picks) >= 1
    /\ (last.op = "index" /\ last.response = "render") =>
         \A row \in last.object_list : \E r \in promotions : r.query = row.query
    /\ EditMoved => \A row \in Listing : row.query # last.query_id
    /\ DeleteDone => \A row \in Listing : row.query # last.query_id

C1_Witness ==
    /\ EditMoved
    /\ PicksOf(before.promotions, last.query_id) # {}
    /\ last.query_id \in queries
    /\ \E row \in Listing : row.query = last.new_query

\* C2: after a valid edit POST whose query string resolves to another
\* Query, every pick the old Query had that was not marked for deletion
\* belongs to the new Query, the old Query has no pick left, and each of
\* those picks has a 'wagtail.edit' entry added by the request.
C2_EditMovesAndLogsEveryPick ==
    EditMoved =>
      /\ PicksOf(promotions, last.query_id) = {}
      /\ \A r \in PicksOf(before.promotions, last.query_id) :
           r.id \notin MarkedForDeletion(last.forms) =>
             /\ \E m \in promotions : m.id = r.id /\ m.query = last.new_query
             /\ CountEntries(Appended, r.id, "wagtail.edit") >= 1

\* C3: an edit or delete request whose transaction raises leaves the
\* promotions and the audit log as they were; one that commits leaves no
\* half-applied state (a pick logged as deleted is gone, a moved Query has
\* no pick left, every entry added refers to a row that was in the store).
C3_TransactionAllOrNothing ==
    (last.op \in {"edit", "delete"}) =>
      /\ last.response = "error" =>
           /\ promotions = before.promotions
           /\ log = before.log
      /\ last.response # "redirect" =>
           /\ promotions = before.promotions
           /\ log = before.log
      /\ last.response = "redirect" =>
           /\ \A i \in 1..Len(Appended) :
                Appended[i].action = "wagtail.delete" =>
                  Appended[i].pick \notin Ids(promotions)
           /\ last.new_query # last.query_id =>
                PicksOf(promotions, last.query_id) = {}

C3_Witness ==
    /\ last.op = "edit"
    /\ last.response = "error"
    /\ last.fault = "log_edit"
    /\ last.new_query # last.query_id
    /\ MarkedForDeletion(last.forms) # {}
    /\ promotions # {}

\* C4: a delete POST removes every pick of the Query and adds exactly one
\* 'wagtail.delete' entry per removed pick, written while the pick is still
\* in the store; picks removed through deleted forms of the formset are
\* logged while still in the store as well.
C4_DeletionLoggedBeforeRemoval ==
    /\ \A i \in 1..Len(Appended) :
         Appended[i].action = "wagtail.delete" =>
           /\ Appended[i].present
           /\ Appended[i].pick \notin Ids(promotions)
    /\ DeleteDone =>
         /\ PicksOf(promotions, last.query_id) = {}
         /\ \A r \in PicksOf(before.promotions, last.query_id) :
              CountEntries(Appended, r.id, "wagtail.delete") = 1
         /\ Len(Appended) = Cardinality(PicksOf(before.promotions, last.query_id))
    /\ (last.op \in {"add", "edit"} /\ last.response = "redirect") =>
         \A id \in MarkedForDeletion(last.forms) :
           /\ id \notin Ids(promotions)
           /\ CountEntries(Appended, id, "wagtail.delete") = 1

C4_Witness ==
    /\ DeleteDone
    /\ Cardinality(PicksOf(before.promotions, last.query_id)) = 2
    /\ Len(Appended) = 2

\* C5: an add POST with a valid query form and a valid formset holding at
\* least one pick that is not deleted redirects, and the Query of the
\* submitted string is then listed by the index with at least one pick.
C5_AddMakesQueryListed ==
    ( /\ last.op = "add"
      /\ last.method = "POST"
      /\ QueryFormValid(last.query_string)
      /\ is_valid(last.forms)
      /\ \E i \in 1..Len(last.forms) :
           ~last.forms[i].DELETE /\ last.forms[i].data # "blank"
      /\ last.fault = "none" ) =>
      /\ last.response = "redirect"
      /\ \E row \in Listing :
           /\ row.query = normalise_query_string(last.query_string)
           /\ Cardinality(row.editors_picks) >= 1

C5_Witness ==
    /\ last.op = "add"
    /\ last.response = "redirect"
    /\ last.query_string = <<"A", " ">>
    /\ PicksOf(before.promotions, <<"a">>) = {}
    /\ \E row \in Listing : row.query = <<"a">>

\* C6: every endpoint is permission-gated: a request from a user without
\* the search-promotion permission of the endpoint is denied, is not served
\* the content and changes neither the promotions nor the audit log.
LacksPermission ==
    \/ last.op = "add" /\ "add" \notin last.user
    \/ last.op = "edit" /\ "change" \notin last.user
    \/ last.op = "delete" /\ "delete" \notin last.user
    \/ last.op \in {"index", "chooser", "chooserresults"} /\ last.user = {}

C6_EveryEndpointGated ==
    LacksPermission =>
      /\ last.response = "denied"
      /\ last.object_list = {}
      /\ promotions = before.promotions
      /\ log = before.log

\* C7: chooser and chooserresults answer not-found exactly when "p" is
\* given and is not a page of the filtered result list (above the last
\* page, below 1, or not an integer); a page that is served holds the
\* positions of that page, at most 10 of them.
ResultCount == IF last.has_q THEN last.matching ELSE last.total

IsPageOf(n, count) == n = 1 \/ (n >= 1 /\ (n - 1) * 10 < count)

C7_InvalidPageIsNotFound ==
    (last.op \in {"chooser", "chooserresults"}) =>
      LET asked == IF last.has_p /\ IsInteger(last.p) THEN int(last.p) ELSE 1
          valid == (last.has_p => IsInteger(last.p)) /\ IsPageOf(asked, ResultCount)
      IN  /\ last.response = "not_found" <=> ~valid
          /\ valid =>
               /\ last.response = (IF last.op = "chooserresults" THEN "results" ELSE "modal")
               /\ last.object_list =
                    { i \in 1..ResultCount : (asked - 1) * 10 < i /\ i <= asked * 10 }
               /\ Cardinality(last.object_list) <= 10

C7_Witness ==
    /\ last.op = "chooser"
    /\ last.has_q
    /\ last.has_p
    /\ last.p = <<"3">>
    /\ ResultCount = 20
    /\ last.response = "not_found"

\* C8: an add or edit POST whose query form or picks formset fails
\* validation is re-rendered, not redirected, and leaves the promotions
\* (their query and sort_order included) and the audit log unchanged.
FailsValidation ==
    /\ last.op \in {"add", "edit"}
    /\ last.method = "POST"
    /\ last.response \notin {"denied", "not_found"}
    /\ ~QueryFormValid(last.query_string) \/ ~is_valid(last.forms)

C8_InvalidPostChangesNothing ==
    FailsValidation =>
      /\ last.response = "render"
      /\ promotions = before.promotions
      /\ log = before.log
      /\ QueryFormValid(last.query_string) =>
           last.message = (IF non_form_errors(last.forms)
                             THEN "non_form_errors" ELSE "form_errors")

C8_Witness ==
    /\ last.op = "edit"
    /\ FailsValidation
    /\ QueryFormValid(last.query_string)
    /\ last.message = "form_errors"
    /\ \E i \in 1..Len(last.forms) :
         last.forms[i].pick # 0 /\ last.forms[i].data = "bad"
    /\ \E i \in 1..Len(last.forms) : last.forms[i].DELETE /\ last.forms[i].pick # 0
    /\ promotions # {}

\* C9: a successful add or edit request adds exactly one 'wagtail.create'
\* entry for every pick it created.
C9_OneCreateEntryPerNewPick ==
    (last.op \in {"add", "edit"} /\ last.response = "redirect") =>
      /\ \A i \in 1..Len(last.new_objects) :
           CountEntries(Appended, last.new_objects[i], "wagtail.create") = 1
      /\ Cardinality({ i \in 1..Len(Appended) : Appended[i].action = "wagtail.create" })
           = Len(last.new_objects)

\* C10: the picks of a Query have pairwise distinct sort_order values.
C10_SortOrderDistinct ==
    \A r1, r2 \in promotions :
      (r1.query = r2.query /\ r1.id # r2.id) => r1.sort_order # r2.sort_order

====
